---- MODULE Spec2Model ----
(***************************************************************************)
(* Model of the Wikipedia word-frequency analyzer                          *)
(* (services/wikipedia.py): the crawl engine with its visited set and      *)
(* frequency accumulator, the fetcher, the extraction and tokenizing       *)
(* functions and the statistics engine.                                    *)
(*                                                                         *)
(* Strings are sequences of one-character strings, so that the string      *)
(* functions of the code (strip, replace, unquote, lower, the tokenizer's  *)
(* regular expression) are computed and not assumed.                       *)
(***************************************************************************)
EXTENDS Integers, Sequences, FiniteSets, TLC

(***************************************************************************)
(* Strings                                                                 *)
(***************************************************************************)

\* str.strip(), str.lstrip(), str.rstrip(): whitespace removed at the ends.
RECURSIVE LStrip(_)
LStrip(s) ==
    IF s # <<>> /\ Head(s) = " " THEN LStrip(Tail(s)) ELSE s

RECURSIVE RStrip(_)
RStrip(s) ==
    IF s # <<>> /\ s[Len(s)] = " " THEN RStrip(SubSeq(s, 1, Len(s) - 1)) ELSE s

Strip(s) ==
    RStrip(LStrip(s))

\* str.replace(' ', '_')
ReplaceSpaces(s) ==
    [i \in 1..Len(s) |-> IF s[i] = " " THEN "_" ELSE s[i]]

\* The uppercase letters of the model's alphabet and their lowercase forms.
LowerChar(c) ==
    CASE c = "A" -> "a"
      [] c = "B" -> "b"
      [] c = "C" -> "c"
      [] c = "D" -> "d"
      [] c = "F" -> "f"
      [] c = "H" -> "h"
      [] c = "I" -> "i"
      [] c = "S" -> "s"
      [] c = "T" -> "t"
      [] c = "X" -> "x"
      [] OTHER   -> c

\* str.lower()
Lower(s) ==
    [i \in 1..Len(s) |-> LowerChar(s[i])]

\* The hexadecimal digits of the model's alphabet.
HexDigits ==
    {"1", "4", "6"}

\* The character a %XX escape stands for (ASCII).
HexDecode(h, l) ==
    CASE h = "4" /\ l = "1" -> "A"
      [] h = "4" /\ l = "4" -> "D"
      [] h = "4" /\ l = "6" -> "F"
      [] h = "6" /\ l = "1" -> "a"
      [] h = "6" /\ l = "4" -> "d"
      [] h = "6" /\ l = "6" -> "f"
      [] h = "1" /\ l = "1" -> "\\x11"
      [] h = "1" /\ l = "4" -> "\\x14"
      [] h = "1" /\ l = "6" -> "\\x16"

\* urllib.parse.unquote: every %XX escape is replaced by its character; a '%'
\* that starts no escape is kept.
RECURSIVE unquote(_)
unquote(s) ==
    IF s = <<>> THEN <<>>
    ELSE IF Len(s) >= 3 /\ s[1] = "%" /\ s[2] \in HexDigits /\ s[3] \in HexDigits
         THEN <<HexDecode(s[2], s[3])>> \o unquote(SubSeq(s, 4, Len(s)))
         ELSE <<Head(s)>> \o unquote(Tail(s))

\* WikipediaAnalyzer._normalize_title
_normalize_title(title) ==
    Lower(unquote(ReplaceSpaces(Strip(title))))

(***************************************************************************)
(* Tokenizer                                                               *)
(***************************************************************************)

Letters ==
    {"a", "b", "c", "d", "e", "f", "g", "h", "i", "j", "k", "l", "m",
     "n", "o", "p", "q", "r", "s", "t", "u", "v", "w", "x", "y", "z"}

Digits ==
    {"0", "1", "2", "3", "4", "5", "6", "7", "8", "9"}

\* The length of the longest prefix of s made of characters of S (a greedy
\* S+ or S* of the regular expression).
RECURSIVE PrefixLen(_, _)
PrefixLen(s, S) ==
    IF s # <<>> /\ Head(s) \in S THEN 1 + PrefixLen(Tail(s), S) ELSE 0

Drop(s, n) ==
    SubSeq(s, n + 1, Len(s))

\* The length matched by (?:'[a-z]+)* at the start of s.
RECURSIVE GroupsLen(_)
GroupsLen(s) ==
    IF Len(s) >= 2 /\ s[1] = "'" /\ s[2] \in Letters
    THEN LET k == 1 + PrefixLen(Tail(s), Letters)
         IN  k + GroupsLen(Drop(s, k))
    ELSE 0

\* re.findall(r"[a-z0-9]+(?:'[a-z]+)*", s): the leftmost, non-overlapping
\* matches, in order.
RECURSIVE findall(_)
findall(s) ==
    IF s = <<>> THEN <<>>
    ELSE IF Head(s) \in Letters \cup Digits
         THEN LET n0 == PrefixLen(s, Letters \cup Digits)
                  n  == n0 + GroupsLen(Drop(s, n0))
              IN  <<SubSeq(s, 1, n)>> \o findall(Drop(s, n))
         ELSE findall(Tail(s))

\* WikipediaAnalyzer._tokenize_text
_tokenize_text(text) ==
    findall(Lower(text))

(***************************************************************************)
(* Markup.  A document is the sequence of its top-level elements, in       *)
(* document order; an element has a tag, an id, its own text, an href      *)
(* (when has_href) and its child elements.  The empty string is the empty  *)
(* sequence.                                                               *)
(***************************************************************************)

Elem(tag, text) ==
    [tag |-> tag, id |-> "", text |-> text, has_href |-> FALSE, href |-> <<>>,
     children |-> <<>>]

Anchor(href, text) ==
    [tag |-> "a", id |-> "", text |-> text, has_href |-> TRUE, href |-> href,
     children |-> <<>>]

Div(id, children) ==
    [tag |-> "div", id |-> id, text |-> <<>>, has_href |-> FALSE, href |-> <<>>,
     children |-> children]

EmptyHtml ==
    <<>>

\* The elements _extract_text_from_html removes, with all they contain.
RemovedTags ==
    {"script", "style", "sup", "table", "img"}

\* The text strings of the elements left, in document order.
RECURSIVE TextStrings(_)
TextStrings(elems) ==
    IF elems = <<>> THEN <<>>
    ELSE LET e == Head(elems)
         IN  (IF e.tag \in RemovedTags
              THEN <<>>
              ELSE <<e.text>> \o TextStrings(e.children))
             \o TextStrings(Tail(elems))

\* get_text(separator=' ', strip=True): every string stripped, the empty ones
\* dropped, the rest joined by one space.
RECURSIVE Join(_)
Join(strings) ==
    IF strings = <<>> THEN <<>>
    ELSE IF Len(strings) = 1 THEN strings[1]
    ELSE strings[1] \o <<" ">> \o Join(Tail(strings))

NonEmpty(s) ==
    s # <<>>

JoinStripped(strings) ==
    Join(SelectSeq([i \in 1..Len(strings) |-> Strip(strings[i])], NonEmpty))

\* WikipediaAnalyzer._extract_text_from_html
_extract_text_from_html(html_content) ==
    JoinStripped(TextStrings(html_content))

\* Every element of a document, in document order.
RECURSIVE Descendants(_)
Descendants(elems) ==
    IF elems = <<>> THEN <<>>
    ELSE <<Head(elems)>> \o Descendants(Head(elems).children)
                         \o Descendants(Tail(elems))

WikiPrefix ==
    <<"/", "w", "i", "k", "i", "/">>

StartsWith(s, prefix) ==
    Len(s) >= Len(prefix) /\ SubSeq(s, 1, Len(prefix)) = prefix

Contains(s, c) ==
    \E i \in 1..Len(s) : s[i] = c

\* The for loop of _extract_links over the anchors with an href.
RECURSIVE CollectLinks(_)
CollectLinks(elems) ==
    IF elems = <<>> THEN <<>>
    ELSE LET e == Head(elems)
         IN  (IF e.tag = "a" /\ e.has_href
                 /\ StartsWith(e.href, WikiPrefix) /\ ~Contains(e.href, ":")
              THEN <<Drop(e.href, Len(WikiPrefix))>>
              ELSE <<>>)
             \o CollectLinks(Tail(elems))

\* A bug: the anchors of the whole document, the container not looked for.
_extract_links_anywhere(html_content) ==
    CollectLinks(Descendants(html_content))

\* WikipediaAnalyzer._extract_links
_extract_links(html_content) ==
    LET all   == Descendants(html_content)
        found == {i \in 1..Len(all) : all[i].tag = "div" /\ all[i].id = "bodyContent"}
    IN  IF found = {} THEN <<>>
        ELSE LET content == all[CHOOSE i \in found : \A j \in found : i <= j]
             IN  CollectLinks(Descendants(content.children))

(***************************************************************************)
(* The frequency accumulator (collections.Counter): a function from the    *)
(* words counted so far to their counts.                                   *)
(***************************************************************************)

EmptyCounter ==
    <<>>

Range(seq) ==
    {seq[i] : i \in 1..Len(seq)}

Occurrences(seq, x) ==
    Cardinality({i \in 1..Len(seq) : seq[i] = x})

CountOf(counter, w) ==
    IF w \in DOMAIN counter THEN counter[w] ELSE 0

\* Counter.update(words): every occurrence of a word adds one to its count.
CounterUpdate(counter, words) ==
    [w \in DOMAIN counter \cup Range(words) |->
        CountOf(counter, w) + Occurrences(words, w)]

RECURSIVE SumOver(_, _)
SumOver(counter, keys) ==
    IF keys = {} THEN 0
    ELSE LET k == CHOOSE x \in keys : TRUE
         IN  counter[k] + SumOver(counter, keys \ {k})

\* sum(self.word_counter.values())
SumValues(counter) ==
    SumOver(counter, DOMAIN counter)

(***************************************************************************)
(* The environment: the article titles a caller or a page may name, the    *)
(* pages the site may serve, and the outcomes of one request.              *)
(***************************************************************************)

\* Raw titles; several normalize to the same identifier ("a", "b_c").
Titles ==
    { <<"A">>, <<"%", "4", "1">>,
      <<" ", "B", " ", "c">>, <<"b", "_", "C">>,
      <<"d">>, <<"f">>, <<"g">> }

Href(title) ==
    WikiPrefix \o title

\* A page whose first three article links name two articles only (the second
\* is the first again, percent-encoded), among namespaced and external links.
HubPage ==
    << Elem("script", <<"x">>),
       Div("bodyContent",
           << Elem("p", <<" ", "H", "i", ",", " ", "h", "i", " ">>),
              Anchor(Href(<<"A">>), <<>>),
              Anchor(Href(<<"C", "a", "t", ":", "X">>), <<>>),
              Anchor(Href(<<"%", "4", "1">>), <<>>),
              Anchor(<<"h", "t", "t", "p", "s", ":", "/", "/", "x">>, <<>>),
              Anchor(Href(<<" ", "B", " ", "c">>), <<>>),
              Anchor(Href(<<"d">>), <<>>) >>) >>

\* A page with four article links, and a link outside the content container.
WidePage ==
    << Anchor(Href(<<"A">>), <<>>),
       Div("bodyContent",
           << Elem("p", <<"I", "t", "'", "s", " ", "2">>),
              Elem("table", <<"t">>),
              Anchor(Href(<<"d">>), <<>>),
              Anchor(Href(<<"f">>), <<>>),
              Anchor(Href(<<"g">>), <<>>),
              Anchor(Href(<<"b", "_", "C">>), <<>>) >>) >>

\* A page without links.
LeafPage ==
    << Div("bodyContent", << Elem("p", <<"H", "i", " ", "a">>) >>) >>

Pages ==
    {HubPage, WidePage, LeafPage}

\* What one client.get may end with: a response (status code and body) or a
\* raised httpx.RequestError.
Responses ==
    [kind : {"response"}, status_code : {200}, text : Pages \cup {EmptyHtml}]
    \cup [kind : {"response"}, status_code : {404, 500}, text : {LeafPage}]
    \cup [kind : {"RequestError"}, status_code : {0}, text : {EmptyHtml}]

\* Every document a request may return.
Documents ==
    Pages \cup {EmptyHtml}

\* The functions of the code, tabulated over the titles and the documents of
\* the environment (each is computed once, by the operator that models it).
NormalizedOf ==
    [title \in Titles |-> _normalize_title(title)]

WordsOf ==
    [html_content \in Documents |->
        _tokenize_text(_extract_text_from_html(html_content))]

LinksOf ==
    [html_content \in Documents |-> _extract_links(html_content)]

(***************************************************************************)
(* Bounds of the model                                                     *)
(***************************************************************************)

\* The largest depth a caller passes to crawl.
MaxDepth ==
    1

\* The number of top-level crawl calls made on one analyzer.
MaxCalls ==
    2

\* The largest count of one word in an accumulator given to the statistics.
MaxCount ==
    3

\* The largest number of elements in the part of a document that varies.
MaxElements ==
    2

\* The words of the accumulators given to the statistics.
StatWords ==
    { <<"a">>, <<"h", "i">>, <<"i", "t", "'", "s">>, <<"2">>, <<"t", "h", "e">> }

\* The largest total of an accumulator the statistics are asked of.
MaxTotal ==
    Cardinality(StatWords) * MaxCount

\* The widths of the binary fixed-point numbers the floating-point values are
\* written in: bits before and after the binary point.
IntWidth ==
    10

FracWidth ==
    64

(***************************************************************************)
(* State                                                                   *)
(***************************************************************************)

VARIABLES
    visited_articles,   \* self.visited_articles
    word_counter,       \* self.word_counter
    stack,              \* the call stack: crawl and fetch_article frames, top last
    stats,              \* what calculate_statistics returned since the last
                        \* crawl call
    calls,              \* the number of top-level crawl calls made so far
    root,               \* the arguments of the last top-level crawl call
    fetch_log,          \* history: the titles fetch_article was called with
                        \* during the last top-level crawl call, in order
    fetch_count,        \* history: for each normalized identifier, the number
                        \* of fetch_article calls made for it in the session
    fetched_ok,         \* history: the normalized identifiers of the titles
                        \* fetch_article returned non-empty content for
    merged,             \* history: the token counts of every non-empty
                        \* content fetch_article returned, merged
    filtered,           \* the last call of filter_by_percentile: its
                        \* arguments, its threshold and what it returned
    requests,           \* the requests made of the HTTP API
    document,           \* the markup given to _extract_links
    extracted           \* what _extract_links returned for it

vars ==
    <<visited_articles, word_counter, stack, stats, calls, root,
      fetch_log, fetch_count, fetched_ok, merged, filtered, requests,
      document, extracted>>

NoStats ==
    [none |-> TRUE]

NoRoot ==
    [article |-> <<>>, current_depth |-> 0, depth |-> 0]

\* _extract_links was not called.
NoLinks ==
    [none |-> TRUE]

\* filter_by_percentile was not called.
NoFilter ==
    [none |-> TRUE]

\* The requests the API may be serving at the same time.
RequestIds ==
    {"r1", "r2"}

\* A request not made yet.
NoRequest ==
    [pc |-> "none"]

NoRequests ==
    [r \in RequestIds |-> NoRequest]

\* WikipediaAnalyzer.__init__
Init ==
    /\ visited_articles = {}
    /\ word_counter = EmptyCounter
    /\ stack = <<>>
    /\ stats = NoStats
    /\ calls = 0
    /\ root = NoRoot
    /\ fetch_log = <<>>
    /\ fetch_count = EmptyCounter
    /\ fetched_ok = {}
    /\ merged = EmptyCounter
    /\ filtered = NoFilter
    /\ requests = NoRequests
    /\ document = EmptyHtml
    /\ extracted = NoLinks

(***************************************************************************)
(* The call stack                                                          *)
(***************************************************************************)

CrawlFrame(article, current_depth, depth) ==
    [fn |-> "crawl", article |-> article, current_depth |-> current_depth,
     depth |-> depth, pc |-> "enter", html_content |-> EmptyHtml, links |-> <<>>]

\* self.wikipedia_url
wikipedia_url ==
    <<"https://en.wikipedia.org/wiki/">>

FetchFrame(title) ==
    [fn |-> "fetch_article", title |-> title,
     url |-> wikipedia_url \o ReplaceSpaces(title),
     attempt |-> 0, pc |-> "get",
     response |-> [kind |-> "none", status_code |-> 0, text |-> EmptyHtml]]

Top ==
    stack[Len(stack)]

Pop(stk) ==
    SubSeq(stk, 1, Len(stk) - 1)

ReplaceTop(stk, frame) ==
    [stk EXCEPT ![Len(stk)] = frame]

Running(fn, pc) ==
    stack # <<>> /\ Top.fn = fn /\ Top.pc = pc

(***************************************************************************)
(* crawl                                                                   *)
(***************************************************************************)

\* A caller invokes crawl on the analyzer (the API handlers, run(), a test).
CrawlCall(article, current_depth, depth) ==
    /\ stack = <<>>
    /\ calls < MaxCalls
    /\ stack' = <<CrawlFrame(article, current_depth, depth)>>
    /\ calls' = calls + 1
    /\ root' = [article |-> article, current_depth |-> current_depth, depth |-> depth]
    /\ fetch_log' = <<>>
    /\ stats' = NoStats
    /\ UNCHANGED <<visited_articles, word_counter, fetch_count,
                   fetched_ok, merged>>
    /\ UNCHANGED <<filtered, requests, document, extracted>>

\* if normalized_title in self.visited_articles
AlreadyVisited(article, visited) ==
    NormalizedOf[article] \in visited

\* A bug: the depth test off by one (>= for >).
DepthExhausted_geq(current_depth, depth) ==
    current_depth >= depth

\* A bug: the depth test left out.
DepthExhausted_never(current_depth, depth) ==
    FALSE

\* if current_depth > depth
DepthExhausted(current_depth, depth) ==
    current_depth > depth

\* A bug: the identifier is never recorded.
MarkVisited_skip(visited, article) ==
    visited

\* A bug: the title is recorded as given, not normalized.
MarkVisited_raw(visited, article) ==
    visited \cup {article}

\* self.visited_articles.add(normalized_title)
MarkVisited(visited, article) ==
    visited \cup {NormalizedOf[article]}

\* crawl from its entry to the request of fetch_article: the two early
\* returns, the marking, the call of fetch_article and its first client.get.
CrawlEnter ==
    /\ Running("crawl", "enter")
    /\ IF AlreadyVisited(Top.article, visited_articles)
       THEN /\ stack' = Pop(stack)
            /\ UNCHANGED <<visited_articles, fetch_log, fetch_count>>
       ELSE IF DepthExhausted(Top.current_depth, Top.depth)
       THEN /\ stack' = Pop(stack)
            /\ UNCHANGED <<visited_articles, fetch_log, fetch_count>>
       ELSE /\ visited_articles' = MarkVisited(visited_articles, Top.article)
            /\ stack' = Append(ReplaceTop(stack, [Top EXCEPT !.pc = "fetching"]),
                               FetchFrame(Top.article))
            /\ fetch_log' = Append(fetch_log, Top.article)
            /\ fetch_count' = CounterUpdate(fetch_count,
                                            <<NormalizedOf[Top.article]>>)
    /\ UNCHANGED <<word_counter, stats, calls, root, fetched_ok, merged>>
    /\ UNCHANGED <<filtered, requests, document, extracted>>

(***************************************************************************)
(* fetch_article                                                           *)
(***************************************************************************)

\* for attempt in range(3)
RetryBudget ==
    3

\* await self.client.get(url) ends: with a response, or raising RequestError.
FetchRespond(resp) ==
    /\ Running("fetch_article", "get")
    /\ stack' = ReplaceTop(stack, [Top EXCEPT !.pc = "got", !.response = resp])
    /\ UNCHANGED <<visited_articles, word_counter, stats, calls, root,
                   fetch_log, fetch_count, fetched_ok, merged>>
    /\ UNCHANGED <<filtered, requests, document, extracted>>

\* What the body of the loop does with the outcome of one attempt: whether
\* fetch_article returns, and what.  The return "" that ends the body is
\* inside the loop, so the body returns whatever the outcome.
AttemptOutcome(resp) ==
    IF resp.kind = "response" /\ resp.status_code = 200
    THEN [returns |-> TRUE, value |-> resp.text]
    ELSE IF resp.kind = "response" /\ resp.status_code = 404
    THEN [returns |-> TRUE, value |-> EmptyHtml]
    ELSE [returns |-> TRUE, value |-> EmptyHtml]

\* The token counts of one page.
PageCounts(html_content) ==
    CounterUpdate(EmptyCounter, WordsOf[html_content])

\* The additive merge of two tables of counts.
MergeCounters(a, b) ==
    [w \in DOMAIN a \cup DOMAIN b |-> CountOf(a, w) + CountOf(b, w)]

\* fetch_article after an attempt: it returns to crawl, or starts the next
\* attempt, or leaves the loop when the budget is spent.
FetchHandle ==
    /\ Running("fetch_article", "got")
    /\ LET out    == AttemptOutcome(Top.response)
           caller == stack[Len(stack) - 1]
       IN  IF out.returns
           THEN /\ stack' = ReplaceTop(Pop(stack),
                               [caller EXCEPT !.pc = "process",
                                              !.html_content = out.value])
                /\ merged' = MergeCounters(merged, PageCounts(out.value))
                /\ fetched_ok' = IF out.value = EmptyHtml THEN fetched_ok
                                  ELSE fetched_ok \cup {NormalizedOf[Top.title]}
           ELSE IF Top.attempt + 1 < RetryBudget
           THEN /\ stack' = ReplaceTop(stack, [Top EXCEPT !.pc = "get",
                                                          !.attempt = @ + 1])
                /\ UNCHANGED <<merged, fetched_ok>>
           ELSE /\ stack' = ReplaceTop(Pop(stack),
                               [caller EXCEPT !.pc = "process",
                                              !.html_content = EmptyHtml])
                /\ UNCHANGED <<merged, fetched_ok>>
    /\ UNCHANGED <<visited_articles, word_counter, stats, calls, root,
                   fetch_log, fetch_count>>
    /\ UNCHANGED <<filtered, requests, document, extracted>>

(***************************************************************************)
(* crawl, continued                                                        *)
(***************************************************************************)

\* links[:3]
LinkLimit ==
    3

\* A bug: the slice is forgotten and every link is followed.
FirstLinks_all(links) ==
    links

\* A bug: the first links are followed last to first.
FirstLinks_reversed(links) ==
    LET n == IF Len(links) < LinkLimit THEN Len(links) ELSE LinkLimit
    IN  [i \in 1..n |-> links[n + 1 - i]]

FirstLinks(links) ==
    SubSeq(links, 1, IF Len(links) < LinkLimit THEN Len(links) ELSE LinkLimit)

\* A bug: the recursion test off by one (<= for <).
MayRecurse_leq(current_depth, depth) ==
    current_depth <= depth

\* if current_depth < depth
MayRecurse(current_depth, depth) ==
    current_depth < depth

\* A bug: dict.update semantics, the page's counts replacing the old ones.
Accumulate_overwrite(counter, html_content) ==
    [w \in DOMAIN counter \cup DOMAIN PageCounts(html_content) |->
        IF w \in DOMAIN PageCounts(html_content)
        THEN PageCounts(html_content)[w] ELSE counter[w]]

\* self.word_counter.update(words) on the words of the page
Accumulate(counter, html_content) ==
    CounterUpdate(counter, WordsOf[html_content])

\* A bug: the empty content is not tested for.
NoContent_never(html_content) ==
    FALSE

\* if not html_content
NoContent(html_content) ==
    html_content = EmptyHtml

\* crawl once fetch_article has returned: the empty-content return, the
\* update of the accumulator and the extraction of the links to follow.
CrawlProcess ==
    /\ Running("crawl", "process")
    /\ IF NoContent(Top.html_content)
       THEN /\ stack' = Pop(stack)
            /\ UNCHANGED word_counter
       ELSE /\ word_counter' = Accumulate(word_counter, Top.html_content)
            /\ IF MayRecurse(Top.current_depth, Top.depth)
               THEN stack' = ReplaceTop(stack,
                        [Top EXCEPT !.pc = "loop",
                                    !.links = FirstLinks(LinksOf[Top.html_content])])
               ELSE stack' = Pop(stack)
    /\ UNCHANGED <<visited_articles, stats, calls, root, fetch_log,
                   fetch_count, fetched_ok, merged>>
    /\ UNCHANGED <<filtered, requests, document, extracted>>

\* A bug: the loop never advances.
RestLinks_same(links) ==
    links

\* The links left to the for loop once it has taken the next one.
RestLinks(links) ==
    Tail(links)

\* for link in links[:3]: await self.crawl(link, current_depth + 1, depth)
CrawlLoop ==
    /\ Running("crawl", "loop")
    /\ IF Top.links = <<>>
       THEN stack' = Pop(stack)
       ELSE stack' = Append(ReplaceTop(stack, [Top EXCEPT !.links = RestLinks(@)]),
                            CrawlFrame(Head(Top.links), Top.current_depth + 1,
                                       Top.depth))
    /\ UNCHANGED <<visited_articles, word_counter, stats, calls, root,
                   fetch_log, fetch_count, fetched_ok, merged>>
    /\ UNCHANGED <<filtered, requests, document, extracted>>

(***************************************************************************)
(* Statistics                                                              *)
(*                                                                         *)
(* Python's float is the IEEE 754 binary64 number: 53 significant bits,    *)
(* every operation rounded to nearest, ties to even.  A value is written   *)
(* here as a sequence of Width bits, most significant first, IntWidth of   *)
(* them before the binary point.                                           *)
(***************************************************************************)

\* The significant bits of a binary64 number.
Precision ==
    53

Width ==
    IntWidth + FracWidth

RECURSIVE Pow2(_)
Pow2(n) ==
    IF n = 0 THEN 1 ELSE 2 * Pow2(n - 1)

\* The integer n as a fixed-point number.
BitsOfNat(n) ==
    SubSeq([i \in 1..Width |->
               IF i <= IntWidth THEN (n \div Pow2(IntWidth - i)) % 2 ELSE 0],
           1, Width)

Zeros(n) ==
    SubSeq([i \in 1..Width |-> 0], 1, n)

\* The integer the bits lo..hi spell.
RECURSIVE NatOfBits(_, _, _)
NatOfBits(bits, lo, hi) ==
    IF lo > hi THEN 0
    ELSE IF lo = hi THEN bits[lo]
    ELSE LET mid == (lo + hi) \div 2
         IN  NatOfBits(bits, lo, mid) * Pow2(hi - mid)
                + NatOfBits(bits, mid + 1, hi)

\* The integer v < 2^n as n bits.
NatBits(v, n) ==
    SubSeq([i \in 1..Width |-> IF i <= n THEN (v \div Pow2(n - i)) % 2 ELSE 0],
           1, n)

\* The next n bits of the binary expansion of r / den, for r < den, and the
\* remainder left after them: long division, IntWidth bits at a time.
RECURSIVE FractionBits(_, _, _)
FractionBits(r, den, n) ==
    IF n = 0
    THEN [bits |-> <<>>, rem |-> r]
    ELSE LET len  == IF n < IntWidth THEN n ELSE IntWidth
             rest == FractionBits((r * Pow2(len)) % den, den, n - len)
         IN  [bits |-> NatBits((r * Pow2(len)) \div den, len) \o rest.bits,
              rem  |-> rest.rem]

\* bits with 1 added at position last; the bits after last are 0.
Increment(bits, last) ==
    LET zeros == {i \in 1..last : bits[i] = 0}
        j     == CHOOSE i \in zeros : \A k \in zeros : k <= i
    IN  SubSeq(bits, 1, j - 1) \o <<1>> \o Zeros(Width - j)

\* The binary64 number nearest to the exact value bits (followed by further
\* non-zero bits if sticky): Precision significant bits, ties to even.
RoundToNearest(bits, sticky) ==
    LET ones == {i \in 1..Width : bits[i] = 1}
    IN  IF ones = {} THEN bits
        ELSE LET lead == CHOOSE i \in ones : \A k \in ones : i <= k
                 last == lead + Precision - 1
             IN  IF last >= Width THEN bits
                 ELSE LET guard == bits[last + 1]
                          rest  == sticky \/ \E k \in (last + 2)..Width : bits[k] = 1
                          kept  == SubSeq(bits, 1, last) \o Zeros(Width - last)
                      IN  IF guard = 1 /\ (rest \/ bits[last] = 1)
                          THEN Increment(kept, last)
                          ELSE kept

\* a / b of two int: true division, a float.
TrueDiv(a, b) ==
    LET q == FractionBits(a % b, b, FracWidth)
    IN  RoundToNearest(SubSeq(BitsOfNat(a \div b), 1, IntWidth) \o q.bits,
                       q.rem # 0)

\* The bits 1..hi of the exact product of the integer n and x, given the
\* carry into bit hi: long multiplication, IntWidth bits at a time, from the
\* last bits to the first.
RECURSIVE TimesBits(_, _, _, _)
TimesBits(n, x, hi, carry) ==
    IF hi = 0 THEN <<>>
    ELSE LET len  == IF hi < IntWidth THEN hi ELSE IntWidth
             prod == n * NatOfBits(x, hi - len + 1, hi) + carry
         IN  TimesBits(n, x, hi - len, prod \div Pow2(len))
                \o NatBits(prod % Pow2(len), len)

\* n * x of an int and a float.
Times(n, x) ==
    RoundToNearest(TimesBits(n, x, Width, 0), FALSE)

\* 1 - x of a float x with 0 <= x < 1: the exact difference, rounded.
OneMinus(x) ==
    LET ones == {i \in 1..Width : x[i] = 1}
    IN  IF ones = {} THEN BitsOfNat(1)
        ELSE LET low == CHOOSE i \in ones : \A k \in ones : k <= i
             IN  RoundToNearest(SubSeq([i \in 1..Width |->
                                           IF i <= IntWidth THEN 0
                                           ELSE IF i < low THEN 1 - x[i]
                                           ELSE x[i]],
                                       1, Width),
                                FALSE)

\* int(x) of a float x >= 0: the integer part.
TruncToInt(x) ==
    NatOfBits(x, 1, IntWidth)

\* A bug: the fraction is not scaled to a percentage.
Percentage_fraction(count, total) ==
    TrueDiv(count, total)

\* (count / total_words) * 100; total # 0.
Percentage(count, total) ==
    Times(100, TrueDiv(count, total))

\* Percentage, tabulated.
PercentageOf ==
    SubSeq([total \in 1..MaxTotal |->
               SubSeq([count \in 1..MaxTotal |-> Percentage(count, total)],
                      1, MaxTotal)],
           1, MaxTotal)

\* Lines 149-158: the percentages and the result.  A division by zero raises.
StatisticsOf(counter, total) ==
    IF total = 0 /\ DOMAIN counter # {}
    THEN [raised |-> "ZeroDivisionError"]
    ELSE [word_count      |-> counter,
          word_percentage |-> [w \in DOMAIN counter |-> PercentageOf[total][counter[w]]],
          total_words     |-> total]

\* A bug: the total is the number of distinct words, not the sum of counts.
calculate_statistics_len(counter) ==
    LET total_words == Cardinality(DOMAIN counter)
    IN  IF total_words = 0
        THEN [word_count |-> EmptyCounter, word_percentage |-> EmptyCounter,
              total_words |-> 0]
        ELSE StatisticsOf(counter, total_words)

\* A bug: the result for an empty accumulator lacks its percentages.
calculate_statistics_nopct(counter) ==
    LET total_words == SumValues(counter)
    IN  IF total_words = 0
        THEN [word_count |-> EmptyCounter, total_words |-> 0]
        ELSE StatisticsOf(counter, total_words)

\* WikipediaAnalyzer.calculate_statistics
calculate_statistics(counter) ==
    LET total_words == SumValues(counter)
    IN  IF total_words = 0
        THEN [word_count |-> EmptyCounter, word_percentage |-> EmptyCounter,
              total_words |-> 0]
        ELSE StatisticsOf(counter, total_words)

(***************************************************************************)
(* filter_by_percentile                                                    *)
(***************************************************************************)

\* The percentiles filter_by_percentile is called with.
Percentiles ==
    {0, 1, 50, 80, 90, 99, 100}

\* The ignore lists it is called with: empty, one word, and a list with a
\* repeated word and a word no accumulator holds.
IgnoreLists ==
    { <<>>,
      << <<"t", "h", "e">> >>,
      << <<"h", "i">>, <<"b", "e", "z", "a", "e">>, <<"h", "i">> >> }

\* sorted(stats['word_count'].values(), reverse=True)
RECURSIVE SortedCounts(_, _)
SortedCounts(counter, keys) ==
    IF keys = {} THEN <<>>
    ELSE LET k == CHOOSE x \in keys : \A y \in keys : counter[x] >= counter[y]
         IN  <<counter[k]>> \o SortedCounts(counter, keys \ {k})

\* int(len(counts) * (1 - percentile / 100)), in floating point, for
\* 0 < percentile < 100.
Index(n, percentile) ==
    TruncToInt(Times(n, OneMinus(TrueDiv(percentile, 100))))

\* Index, tabulated.
IndexOf ==
    [n \in 1..Cardinality(StatWords), percentile \in Percentiles \ {0, 100} |->
        Index(n, percentile)]

\* A bug: the cases of 100 and of 0 are exchanged.
Threshold_swapped(counts, percentile) ==
    IF percentile = 0
    THEN IF counts # <<>> THEN counts[1] ELSE 0
    ELSE IF percentile = 100
    THEN 0
    ELSE LET index == IndexOf[Len(counts), percentile]
         IN  counts[(IF index < Len(counts) - 1 THEN index ELSE Len(counts) - 1) + 1]

\* Lines 176-182: the threshold; counts is not empty.  Python's counts[i] is
\* the element i + 1 of the sequence.
Threshold(counts, percentile) ==
    IF percentile = 100
    THEN IF counts # <<>> THEN counts[1] ELSE 0
    ELSE IF percentile = 0
    THEN 0
    ELSE LET index == IndexOf[Len(counts), percentile]
         IN  counts[(IF index < Len(counts) - 1 THEN index ELSE Len(counts) - 1) + 1]

\* A bug: a count equal to the threshold does not pass.
Passes_strict(count, threshold) ==
    count > threshold

\* count >= threshold
Passes(count, threshold) ==
    count >= threshold

\* A bug: the ignore list is not consulted.
Ignored_never(word, ignore_list) ==
    FALSE

\* ignore_set = set(ignore_list); word in ignore_set
Ignored(word, ignore_list) ==
    word \in Range(ignore_list)

\* A bug: the percentages are taken over the retained words only.
FilteredPercentage_renormalised(stats_, filtered_count) ==
    [word \in DOMAIN filtered_count |->
        PercentageOf[SumValues(filtered_count)][filtered_count[word]]]

\* Lines 192-195: the percentages of the retained words.
FilteredPercentage(stats_, filtered_count) ==
    [word \in DOMAIN filtered_count |-> stats_.word_percentage[word]]

\* WikipediaAnalyzer.filter_by_percentile: what it returns, and the threshold
\* it computed (none when it returns before computing one).
filter_by_percentile(counter, percentile, ignore_list) ==
    LET stats_ == calculate_statistics(counter)
    IN  IF DOMAIN stats_.word_count = {}
        THEN [threshold |-> [none |-> TRUE],
              result |-> [word_count      |-> stats_.word_count,
                          word_percentage |-> stats_.word_percentage,
                          total_words     |-> stats_.total_words,
                          filtered_words  |-> 0]]
        ELSE LET counts    == SortedCounts(stats_.word_count, DOMAIN stats_.word_count)
                 threshold == Threshold(counts, percentile)
                 filtered_count ==
                     [word \in {w \in DOMAIN stats_.word_count :
                                   /\ Passes(stats_.word_count[w], threshold)
                                   /\ ~Ignored(w, ignore_list)}
                        |-> stats_.word_count[word]]
             IN  [threshold |-> threshold,
                  result |-> [word_count      |-> filtered_count,
                              word_percentage |-> FilteredPercentage(stats_, filtered_count),
                              total_words     |-> stats_.total_words,
                              filtered_words  |-> Cardinality(DOMAIN filtered_count)]]

\* A caller asks for the filtered statistics once no crawl is running.
FilterByPercentile(percentile, ignore_list) ==
    /\ stack = <<>>
    /\ LET returned == filter_by_percentile(word_counter, percentile, ignore_list)
       IN  filtered' = [percentile  |-> percentile,
                        ignore_list |-> ignore_list,
                        threshold   |-> returned.threshold,
                        result      |-> returned.result]
    /\ UNCHANGED <<visited_articles, word_counter, stack, stats, calls, root,
                   fetch_log, fetch_count, fetched_ok, merged, requests>>
    /\ UNCHANGED <<document, extracted>>

\* A caller asks for the statistics once no crawl is running.
CalculateStatistics ==
    /\ stack = <<>>
    /\ stats' = calculate_statistics(word_counter)
    /\ UNCHANGED <<visited_articles, word_counter, stack, calls, root,
                   fetch_log, fetch_count, fetched_ok, merged>>
    /\ UNCHANGED <<filtered, requests, document, extracted>>

(***************************************************************************)
(* The HTTP API                                                            *)
(***************************************************************************)

\* The parameters of a request: each of the set named, or left out.
Parameters(named) ==
    {[name \in given |-> named[name]] : given \in SUBSET DOMAIN named}

\* The query strings of GET /word-frequency.
Queries ==
    UNION {Parameters([article |-> article, max_depth |-> max_depth]) :
              article \in {<<>>, <<"A">>}, max_depth \in {-1, 0, 10, 11}}

\* The JSON bodies of POST /keywords (the body left out is the empty one).
Bodies ==
    UNION {Parameters([article |-> <<"A">>, depth |-> depth,
                       ignore_list |-> <<>>, percentile |-> percentile]) :
              depth \in {-1, 0, 11}, percentile \in {-1, 50, 101}}

\* article: str = Query(..., min_length=1); max_depth: int = Query(..., ge=0, le=10)
ValidQuery(query) ==
    /\ "article" \in DOMAIN query
    /\ Len(query.article) >= 1
    /\ "max_depth" \in DOMAIN query
    /\ query.max_depth >= 0
    /\ query.max_depth <= 10

\* KeywordsRequest: the four fields are required; none has a range.
ValidBody(body) ==
    /\ "article" \in DOMAIN body
    /\ "depth" \in DOMAIN body
    /\ "ignore_list" \in DOMAIN body
    /\ "percentile" \in DOMAIN body

\* A client sends a request.
SendRequest(r, endpoint, parameters) ==
    /\ requests[r].pc = "none"
    /\ requests' = [requests EXCEPT ![r] =
                        [pc |-> "received", endpoint |-> endpoint,
                         parameters |-> parameters, status |-> 0,
                         analyzer_calls |-> 0, crawl_calls |-> 0,
                         analyzer |-> [none |-> TRUE],
                         response |-> [none |-> TRUE]]]
    /\ UNCHANGED <<visited_articles, word_counter, stack, stats, calls, root,
                   fetch_log, fetch_count, fetched_ok, merged, filtered>>
    /\ UNCHANGED <<document, extracted>>

\* FastAPI validates the parameters before it calls the handler: 422 if
\* they are not valid.
Validate(r) ==
    /\ requests[r].pc = "received"
    /\ LET valid == IF requests[r].endpoint = "/word-frequency"
                    THEN ValidQuery(requests[r].parameters)
                    ELSE ValidBody(requests[r].parameters)
       IN  requests' = [requests EXCEPT ![r] =
                           IF valid
                           THEN [@ EXCEPT !.pc = "handler"]
                           ELSE [@ EXCEPT !.pc = "done", !.status = 422,
                                          !.response = [detail |-> "validation"]]]
    /\ UNCHANGED <<visited_articles, word_counter, stack, stats, calls, root,
                   fetch_log, fetch_count, fetched_ok, merged, filtered>>
    /\ UNCHANGED <<document, extracted>>

\* The parameters of WikipediaAnalyzer.__init__ besides self.
InitParameters ==
    {}

\* WikipediaAnalyzer(**kwargs): the call raises TypeError on a keyword
\* __init__ does not have; otherwise it returns a new analyzer.
NewAnalyzer(kwargs) ==
    IF kwargs \subseteq InitParameters
    THEN [raised |-> "none", visited_articles |-> {}, word_counter |-> EmptyCounter]
    ELSE [raised |-> "TypeError"]

\* The body of a handler: WikipediaAnalyzer(client=http_client) is called
\* inside try; what it raises is caught by except Exception and answered
\* with 500.  Were an analyzer returned, the handler would go on to crawl.
Handle(request) ==
    LET analyzer == NewAnalyzer({"client"})
    IN  IF analyzer.raised # "none"
        THEN [request EXCEPT !.pc = "done", !.status = 500,
                             !.analyzer_calls = @ + 1,
                             !.response = [detail |-> analyzer.raised]]
        ELSE [request EXCEPT !.pc = "crawl", !.analyzer_calls = @ + 1,
                             !.crawl_calls = @ + 1,
                             !.analyzer = analyzer]

\* word_frequency
WordFrequency(r) ==
    /\ requests[r].pc = "handler"
    /\ requests[r].endpoint = "/word-frequency"
    /\ requests' = [requests EXCEPT ![r] = Handle(@)]
    /\ UNCHANGED <<visited_articles, word_counter, stack, stats, calls, root,
                   fetch_log, fetch_count, fetched_ok, merged, filtered>>
    /\ UNCHANGED <<document, extracted>>

\* get_keywords
GetKeywords(r) ==
    /\ requests[r].pc = "handler"
    /\ requests[r].endpoint = "/keywords"
    /\ requests' = [requests EXCEPT ![r] = Handle(@)]
    /\ UNCHANGED <<visited_articles, word_counter, stack, stats, calls, root,
                   fetch_log, fetch_count, fetched_ok, merged, filtered>>
    /\ UNCHANGED <<document, extracted>>

(***************************************************************************)
(* Specifications                                                          *)
(***************************************************************************)

Depths ==
    0..MaxDepth

\* One step of a running crawl.
CrawlStep ==
    \/ CrawlEnter
    \/ \E resp \in Responses : FetchRespond(resp)
    \/ FetchHandle
    \/ CrawlProcess
    \/ CrawlLoop

Next ==
    \/ \E article \in Titles, depth \in Depths :
           \E current_depth \in 0..(depth + 1) :
               CrawlCall(article, current_depth, depth)
    \/ CrawlStep
    \/ CalculateStatistics

\* One analyzer: any sequence of crawl calls, each run to its end, with the
\* statistics asked for in between.
Spec ==
    Init /\ [][Next]_vars

\* The same, with every started crawl step eventually taken: the event loop
\* runs the coroutine and every request ends (the client has a timeout).
FairSpec ==
    Init /\ [][Next]_vars /\ WF_vars(CrawlStep)

\* The statistics of an arbitrary accumulator.
Counters ==
    UNION { [D -> 1..MaxCount] : D \in SUBSET StatWords }

InitStats ==
    /\ word_counter \in Counters
    /\ visited_articles = {}
    /\ stack = <<>>
    /\ stats = NoStats
    /\ calls = 0
    /\ root = NoRoot
    /\ fetch_log = <<>>
    /\ fetch_count = EmptyCounter
    /\ fetched_ok = {}
    /\ merged = EmptyCounter
    /\ filtered = NoFilter
    /\ requests = NoRequests
    /\ document = EmptyHtml
    /\ extracted = NoLinks

NextStats ==
    CalculateStatistics

SpecStats ==
    InitStats /\ [][NextStats]_vars

\* The filtered statistics of an arbitrary accumulator.
NextFilter ==
    \E percentile \in Percentiles, ignore_list \in IgnoreLists :
        FilterByPercentile(percentile, ignore_list)

SpecFilter ==
    InitStats /\ [][NextFilter]_vars

\* The API serving its requests, in any interleaving.
NextApi ==
    \E r \in RequestIds :
        \/ \E query \in Queries : SendRequest(r, "/word-frequency", query)
        \/ \E body \in Bodies : SendRequest(r, "/keywords", body)
        \/ Validate(r)
        \/ WordFrequency(r)
        \/ GetKeywords(r)

SpecApi ==
    Init /\ [][NextApi]_vars

\* The elements the documents given to _extract_links are made of: article
\* links, a namespaced link, an external link, a link of another path, a link
\* to the bare prefix, an anchor with no href, a link inside a nested element,
\* and a paragraph.
LinkElements ==
    { Anchor(Href(<<"A">>), <<"x">>),
      Anchor(Href(<<"b", "_", "C">>), <<"x">>),
      Anchor(Href(<<"C", "a", "t", ":", "X">>), <<"x">>),
      Anchor(<<"h", "t", "t", "p", "s", ":", "/", "/", "x">>, <<"x">>),
      Anchor(<<"/", "w", "/", "A">>, <<"x">>),
      Anchor(WikiPrefix, <<"x">>),
      Elem("a", <<"x">>),
      Div("", <<Anchor(Href(<<"d">>), <<"x">>)>>),
      Elem("p", <<"x">>) }

ElementSequences ==
    UNION { [1..n -> LinkElements] : n \in 0..MaxElements }

\* The documents: the elements in the container at the top of the document;
\* in a container nested in another element, with article links before and
\* after it; and in an element that is not the container.
Markups ==
    UNION { { <<Div("bodyContent", elems)>>,
              <<Anchor(Href(<<"f">>), <<"x">>),
                Div("content", <<Div("bodyContent", elems)>>),
                Anchor(Href(<<"g">>), <<"x">>)>>,
              <<Div("content", elems)>> } : elems \in ElementSequences }

\* A caller applies _extract_links to the document.
ExtractLinks ==
    /\ extracted' = [links |-> _extract_links(document)]
    /\ UNCHANGED <<visited_articles, word_counter, stack, stats, calls, root,
                   fetch_log, fetch_count, fetched_ok, merged, filtered,
                   requests, document>>

InitLinks ==
    /\ document \in Markups
    /\ extracted = NoLinks
    /\ visited_articles = {}
    /\ word_counter = EmptyCounter
    /\ stack = <<>>
    /\ stats = NoStats
    /\ calls = 0
    /\ root = NoRoot
    /\ fetch_log = <<>>
    /\ fetch_count = EmptyCounter
    /\ fetched_ok = {}
    /\ merged = EmptyCounter
    /\ filtered = NoFilter
    /\ requests = NoRequests

NextLinks ==
    ExtractLinks

\* _extract_links applied to any of the documents.
SpecLinks ==
    InitLinks /\ [][NextLinks]_vars

(***************************************************************************)
(* Properties                                                              *)
(***************************************************************************)

CrawlFrames ==
    {i \in 1..Len(stack) : stack[i].fn = "crawl"}

\* C1: within one session every normalized identifier is fetched at most
\* once, and a crawl call on an identifier whose normalized form is already in
\* visited_articles returns without a fetch and leaves visited_articles as it
\* is.
C1_FetchedAtMostOnce ==
    /\ [](\A n \in DOMAIN fetch_count : fetch_count[n] <= 1)
    /\ [][(Running("crawl", "enter")
            /\ Lower(unquote(ReplaceSpaces(Strip(Top.article)))) \in visited_articles)
          => /\ stack' = Pop(stack)
             /\ fetch_count' = fetch_count
             /\ fetch_log' = fetch_log
             /\ Cardinality(visited_articles') = Cardinality(visited_articles)]_vars

\* C1 witness: crawl is entered for "%41" after "A" was fetched in the same
\* call: another spelling of a visited identifier.
C1_Witness ==
    /\ Running("crawl", "enter")
    /\ Top.article = <<"%", "4", "1">>
    /\ <<"A">> \in Range(fetch_log)
    /\ <<"a">> \in visited_articles

\* C2: crawl(article, 0, 0) on a fresh analyzer calls fetch_article exactly
\* once, with the root article, whatever the page links to.
C2_DepthZeroFetchesOne ==
    (calls = 1 /\ root.current_depth = 0 /\ root.depth = 0)
        => /\ Len(fetch_log) <= 1
           /\ \A i \in 1..Len(fetch_log) : fetch_log[i] = root.article
           /\ (stack = <<>> \/ Top.pc # "enter") => Len(fetch_log) = 1

\* C2 witness: such a crawl has ended after fetching a page with four links.
C2_Witness ==
    /\ calls = 1 /\ root.current_depth = 0 /\ root.depth = 0
    /\ stack = <<>>
    /\ word_counter = PageCounts(WidePage)
    /\ Len(_extract_links(WidePage)) = 4

\* C3: a crawl started at depth 0 ends: every call returns, whatever the
\* pages link to, cycles and mutual references included.
C3_CrawlTerminates ==
    (stack # <<>> /\ root.current_depth = 0) ~> (stack = <<>>)

\* C3 witness: a crawl two calls deep is entered for the root's own
\* identifier, linked from the root's page: a cycle.
C3_Witness ==
    /\ Len(stack) = 2
    /\ Running("crawl", "enter")
    /\ root.current_depth = 0
    /\ _normalize_title(Top.article) = _normalize_title(root.article)

\* C4 as claimed: visited_articles holds no identifier whose content was not
\* fetched successfully.
C4_VisitedOnlyFetchedOk ==
    visited_articles \subseteq fetched_ok

\* C4 as amended: visited_articles holds exactly the normalized identifiers
\* fetch_article has been called for (whether the fetch returned content,
\* returned empty or has not returned yet); those fetched successfully are
\* among them.
C4_VisitedAreFetchStarted ==
    /\ visited_articles = DOMAIN fetch_count
    /\ fetched_ok \subseteq visited_articles

\* C4 witness: a crawl has ended and left an identifier visited whose fetch
\* returned empty.
C4_Witness ==
    /\ stack = <<>>
    /\ visited_articles \ fetched_ok # {}

Transient(resp) ==
    \/ resp.kind = "RequestError"
    \/ resp.kind = "response" /\ resp.status_code \notin {200, 404}

\* C5: an attempt that ends with a status other than 200 or 404, or with a
\* RequestError, is followed by another attempt while fewer than 3 were made.
C5_TransientFailureRetried ==
    [][(Running("fetch_article", "got") /\ Transient(Top.response)
            /\ Top.attempt + 1 < 3)
          => /\ Len(stack') = Len(stack)
             /\ stack'[Len(stack')].fn = "fetch_article"
             /\ stack'[Len(stack')].pc = "get"
             /\ stack'[Len(stack')].attempt = Top.attempt + 1]_vars

\* C6: when fetch_article returned the empty string, the crawl call returns
\* at once: the accumulator is unchanged, no crawl is called and nothing is
\* fetched.
C6_EmptyContentStopsBranch ==
    [][(Running("crawl", "process") /\ Top.html_content = <<>>)
          => /\ word_counter' = word_counter
             /\ stack' = Pop(stack)
             /\ fetch_log' = fetch_log
             /\ fetch_count' = fetch_count]_vars

\* C6 witness: fetch_article returned empty to a crawl call that could have
\* recursed (its depth is below the maximum).
C6_Witness ==
    /\ Running("crawl", "process")
    /\ Top.html_content = <<>>
    /\ Top.current_depth < Top.depth

\* C7: after a crawl the accumulator is the merge of the token counts of the
\* contents fetched non-empty, each merged once; no count is negative; the
\* total never decreases, and grows only in a step that processes an article
\* with non-empty text.
C7_AccumulatorIsMerge ==
    /\ [](stack = <<>> => word_counter = merged)
    /\ [](\A w \in DOMAIN word_counter : word_counter[w] >= 0)
    /\ [][/\ SumValues(word_counter') >= SumValues(word_counter)
          /\ SumValues(word_counter') > SumValues(word_counter)
                => /\ Running("crawl", "process")
                   /\ _extract_text_from_html(Top.html_content) # <<>>]_vars

\* C7 witness: a crawl has ended with "hi" counted from two articles, and
\* with an article that gave no content.
C7_Witness ==
    /\ stack = <<>>
    /\ <<"h", "i">> \in DOMAIN word_counter
    /\ word_counter[<<"h", "i">>] >= 3
    /\ visited_articles \ fetched_ok # {}

RECURSIVE GeoSum(_)
GeoSum(d) ==
    IF d = 0 THEN 1 ELSE 3 * GeoSum(d - 1) + 1

First3(links) ==
    SubSeq(links, 1, IF Len(links) < 3 THEN Len(links) ELSE 3)

\* C8: in a crawl started at depth 0 with maximum depth d, a crawl call
\* recurses only into the first 3 links of its page, in document order, each
\* at its depth + 1, and at most 1 + 3 + ... + 3^d fetches are made.
C8_BoundedFanOut ==
    /\ root.current_depth = 0 => Len(fetch_log) <= GeoSum(root.depth)
    /\ \A i \in CrawlFrames :
           /\ Len(stack[i].links) <= 3
           /\ (i < Len(stack) /\ stack[i + 1].fn = "crawl")
                => LET first == First3(_extract_links(stack[i].html_content))
                   IN  /\ stack[i].current_depth < stack[i].depth
                       /\ stack[i + 1].current_depth = stack[i].current_depth + 1
                       /\ \E k \in 1..Len(first) :
                              /\ stack[i + 1].article = first[k]
                              /\ stack[i].links = SubSeq(first, k + 1, Len(first))

\* C8 witness: a crawl with maximum depth 1 has ended after 4 fetches.
C8_Witness ==
    /\ stack = <<>>
    /\ root.current_depth = 0 /\ root.depth = 1
    /\ Len(fetch_log) = 4

\* C9: calculate_statistics returns the sum of the counts as total_words and
\* the accumulator itself as word_count, and changes neither the accumulator
\* nor the visited set.
C9_StatisticsMatchAccumulator ==
    /\ [](stats # NoStats
            => /\ stats.total_words = SumValues(word_counter)
               /\ stats.word_count = word_counter)
    /\ [][stats' # stats
            => /\ word_counter' = word_counter
               /\ visited_articles' = visited_articles]_vars

\* C9 witness: the statistics of an accumulator of three words, one counted
\* more than once.
C9_Witness ==
    /\ stats # NoStats
    /\ Cardinality(DOMAIN word_counter) = 3
    /\ stats.total_words > 3

\* C10: on an accumulator whose counts sum to zero calculate_statistics
\* returns exactly empty counts, empty percentages and a total of 0, and it
\* never divides by zero.
C10_EmptyStatistics ==
    /\ stats # [raised |-> "ZeroDivisionError"]
    /\ (stats # NoStats /\ SumValues(word_counter) = 0)
          => stats = [word_count |-> <<>>, word_percentage |-> <<>>,
                      total_words |-> 0]

\* C10 witness: the statistics of the empty accumulator were asked for.
C10_Witness ==
    /\ stats # NoStats
    /\ word_counter = <<>>

\* The float x times 65536, rounded down to an integer.
Scaled(x) ==
    NatOfBits(x, 1, IntWidth + 16)

\* C11: for a non-empty accumulator each word's percentage is
\* 100 * count / total within 1e-2, and the percentages sum to 100 within
\* 1e-2.  In units of 1/65536: 1e-2 is 655.36, 100 is 6553600, and a
\* percentage lies less than one unit above its Scaled value.
C11_PercentagesSumTo100 ==
    (stats # NoStats /\ DOMAIN word_counter # {})
        => /\ DOMAIN stats.word_percentage = DOMAIN word_counter
           /\ \A w \in DOMAIN word_counter :
                  LET units == Scaled(stats.word_percentage[w]) * stats.total_words
                      exact == 6553600 * word_counter[w]
                  IN  /\ units <= exact + 654 * stats.total_words
                      /\ exact <= units + 654 * stats.total_words
           /\ LET sum == SumOver([w \in DOMAIN word_counter |->
                                     Scaled(stats.word_percentage[w])],
                                 DOMAIN word_counter)
              IN  /\ 6553600 - 655 <= sum
                  /\ sum + Cardinality(DOMAIN word_counter) <= 6553600 + 655

\* C11 witness: the statistics of three words counted 3, 2 and 1, whose
\* percentages 50, 33.33... and 16.66... are not all exact in binary.
C11_Witness ==
    /\ stats # NoStats
    /\ Cardinality(DOMAIN word_counter) = 3
    /\ {word_counter[w] : w \in DOMAIN word_counter} = {1, 2, 3}
    /\ \E w \in DOMAIN word_counter :
           Scaled(stats.word_percentage[w]) * 6 # 6553600 * word_counter[w]

\* C12: filter_by_percentile(0, []) retains exactly the words of the
\* accumulator, each with its count.
C12_PercentileZeroKeepsAll ==
    (filtered # NoFilter /\ filtered.percentile = 0 /\ filtered.ignore_list = <<>>)
        => filtered.result.word_count = word_counter

\* C12 witness: filter_by_percentile(0, []) on five words whose counts
\* differ.
C12_Witness ==
    /\ filtered # NoFilter
    /\ filtered.percentile = 0 /\ filtered.ignore_list = <<>>
    /\ Cardinality(DOMAIN word_counter) = 5
    /\ {word_counter[w] : w \in DOMAIN word_counter} = {1, 2, 3}

\* C13: on a non-empty accumulator filter_by_percentile(100, []) retains
\* exactly the words whose count is the maximum count, with that count.
C13_PercentileHundredKeepsTop ==
    (/\ filtered # NoFilter
     /\ filtered.percentile = 100 /\ filtered.ignore_list = <<>>
     /\ DOMAIN word_counter # {})
        => /\ DOMAIN filtered.result.word_count =
                  {w \in DOMAIN word_counter :
                      \A v \in DOMAIN word_counter : word_counter[w] >= word_counter[v]}
           /\ \A w \in DOMAIN filtered.result.word_count :
                  filtered.result.word_count[w] = word_counter[w]

\* C13 witness: filter_by_percentile(100, []) kept two words of five, both
\* with the maximum count.
C13_Witness ==
    /\ filtered # NoFilter
    /\ filtered.percentile = 100 /\ filtered.ignore_list = <<>>
    /\ Cardinality(DOMAIN word_counter) = 5
    /\ Cardinality(DOMAIN filtered.result.word_count) = 2

\* C14: on an accumulator of N > 0 words and for 0 < percentile < 100 the
\* threshold is the count at index min(floor(N * (1 - percentile / 100)),
\* N - 1) of the counts sorted in descending order.
C14_ThresholdAtFloorIndex ==
    (/\ filtered # NoFilter
     /\ 0 < filtered.percentile /\ filtered.percentile < 100
     /\ DOMAIN word_counter # {})
        => LET counts == SortedCounts(word_counter, DOMAIN word_counter)
               N      == Len(counts)
               floor  == (N * (100 - filtered.percentile)) \div 100
               index  == IF floor < N - 1 THEN floor ELSE N - 1
           IN  /\ index >= 0
               /\ filtered.threshold = counts[index + 1]

\* C15: a word is in the result of filter_by_percentile if and only if it is
\* in the accumulator with a count >= the threshold the call computed and it
\* is not in the ignore list; no word of the ignore list is ever returned.
C15_RetainedIffPassesAndNotIgnored ==
    filtered # NoFilter
        => /\ \A w \in Range(filtered.ignore_list) :
                  w \notin DOMAIN filtered.result.word_count
           /\ DOMAIN filtered.result.word_count \subseteq DOMAIN word_counter
           /\ DOMAIN word_counter # {}
                => \A w \in DOMAIN word_counter :
                       w \in DOMAIN filtered.result.word_count
                          <=> /\ word_counter[w] >= filtered.threshold
                              /\ \A i \in 1..Len(filtered.ignore_list) :
                                     filtered.ignore_list[i] # w

\* C15 witness: a call whose ignore list names the most counted word of the
\* accumulator; a word was retained and a word fell below the threshold.
C15_Witness ==
    /\ filtered # NoFilter
    /\ DOMAIN filtered.result.word_count # {}
    /\ \E w \in Range(filtered.ignore_list) \cap DOMAIN word_counter :
           \A v \in DOMAIN word_counter : word_counter[w] > word_counter[v] \/ v = w
    /\ \E w \in DOMAIN word_counter : word_counter[w] < filtered.threshold

\* C16: filter_by_percentile returns the unfiltered total as total_words, the
\* number of retained words as filtered_words, and for each retained word its
\* count and its percentage of the unfiltered total; on the empty accumulator
\* it returns the empty statistics with filtered_words = 0.
C16_FilteredResultShape ==
    filtered # NoFilter
        => /\ filtered.result.total_words = SumValues(word_counter)
           /\ filtered.result.filtered_words =
                  Cardinality(DOMAIN filtered.result.word_count)
           /\ DOMAIN filtered.result.word_percentage =
                  DOMAIN filtered.result.word_count
           /\ \A w \in DOMAIN filtered.result.word_count :
                  /\ filtered.result.word_count[w] = word_counter[w]
                  /\ filtered.result.word_percentage[w] =
                         PercentageOf[SumValues(word_counter)][word_counter[w]]
           /\ DOMAIN word_counter = {}
                => filtered.result = [word_count |-> <<>>, word_percentage |-> <<>>,
                                      total_words |-> 0, filtered_words |-> 0]

\* C16 witness: a call that retained two words of five, with a total larger
\* than the sum of the retained counts.
C16_Witness ==
    /\ filtered # NoFilter
    /\ Cardinality(DOMAIN word_counter) = 5
    /\ filtered.result.filtered_words = 2
    /\ filtered.result.total_words > SumValues(filtered.result.word_count)

\* A request with a field missing or out of range: depth outside 0..10,
\* percentile outside 0..100.
Malformed(request) ==
    LET given == request.parameters
    IN  IF request.endpoint = "/word-frequency"
        THEN \/ "article" \notin DOMAIN given
             \/ "max_depth" \notin DOMAIN given
             \/ given.max_depth \notin 0..10
        ELSE \/ DOMAIN given # {"article", "depth", "ignore_list", "percentile"}
             \/ given.depth \notin 0..10
             \/ given.percentile \notin 0..100

\* A request with every field given and in range, and a non-empty title.
WellFormed(request) ==
    /\ ~Malformed(request)
    /\ request.parameters.article # <<>>

\* C17: a request to /word-frequency or /keywords with a field missing or out
\* of range is rejected as a validation failure (422), before its handler
\* runs, creates a WikipediaAnalyzer or calls crawl.
C17_MalformedRejectedBeforeCore ==
    \A r \in RequestIds :
        (requests[r].pc # "none" /\ Malformed(requests[r]))
            => /\ requests[r].pc \in {"received", "done"}
               /\ requests[r].pc = "done" => requests[r].status = 422
               /\ requests[r].analyzer_calls = 0
               /\ requests[r].crawl_calls = 0

\* C18: a well-formed request whose crawl fetches no content (no request of
\* the model fetches any) is answered 200 with empty word_count and
\* word_percentage, not with an error.
C18_NoContentIsSuccess ==
    \A r \in RequestIds :
        (requests[r].pc = "done" /\ WellFormed(requests[r]))
            => /\ requests[r].status = 200
               /\ requests[r].response = [word_count |-> <<>>,
                                          word_percentage |-> <<>>]

\* C19: every well-formed request that was handled has created an analyzer of
\* its own, with its own visited set and accumulator, whatever the other
\* request did meanwhile.
C19_OwnStatePerRequest ==
    \A r \in RequestIds :
        (requests[r].pc \in {"crawl", "done"} /\ WellFormed(requests[r]))
            => /\ requests[r].analyzer_calls = 1
               /\ DOMAIN requests[r].analyzer =
                      {"raised", "visited_articles", "word_counter"}
               /\ requests[r].analyzer.raised = "none"

\* The place of a title in the log of fetches (0 if it was not fetched).
FetchedAt(title) ==
    IF title \in Range(fetch_log)
    THEN CHOOSE k \in 1..Len(fetch_log) : fetch_log[k] = title
    ELSE 0

C21_DepthReturnLeavesNoTrace ==
    [][/\ (/\ Running("crawl", "enter")
           /\ NormalizedOf[Top.article] \notin visited_articles)
          => IF Top.current_depth > Top.depth
             THEN /\ stack' = Pop(stack)
                  /\ UNCHANGED <<visited_articles, word_counter, fetch_log,
                                 fetch_count, fetched_ok, merged>>
             ELSE /\ NormalizedOf[Top.article] \in visited_articles'
                  /\ fetch_log' = Append(fetch_log, Top.article)
                  /\ Len(stack') = Len(stack) + 1
                  /\ stack'[Len(stack')].fn = "fetch_article"
                  /\ stack'[Len(stack')].title = Top.article
                  /\ UNCHANGED word_counter
       /\ (/\ stack = <<>> /\ calls > 0
           /\ root.current_depth > root.depth
           /\ NormalizedOf[root.article] \notin visited_articles
           /\ stack' # <<>>
           /\ NormalizedOf[stack'[1].article] = NormalizedOf[root.article]
           /\ stack'[1].current_depth <= stack'[1].depth)
          => /\ stack'[1].fn = "crawl" /\ stack'[1].pc = "enter"
             /\ NormalizedOf[stack'[1].article] \notin visited_articles'
             /\ word_counter' = word_counter
             /\ word_counter = merged]_vars

\* C21 witness: after a first call that fetched and merged a page, the second
\* call of the session, above its maximum depth and on an identifier not
\* visited, has returned: the identifier is still not visited, nothing was
\* fetched, and the accumulator is that of the first call.
C21_Witness ==
    /\ calls = 2
    /\ stack = <<>>
    /\ root.current_depth > root.depth
    /\ NormalizedOf[root.article] \notin visited_articles
    /\ fetch_log = <<>>
    /\ visited_articles # {}
    /\ word_counter # EmptyCounter
    /\ word_counter = merged

\* C23: in a crawl started with current_depth = 0 every crawl call in progress
\* has 0 <= current_depth <= depth, all with the root's depth and one deeper
\* than their caller; a fetch is started and an identifier marked visited only
\* by a call with current_depth <= depth; and no call returns at the depth
\* test.
C23_DepthWithinMaximum ==
    /\ [](root # NoRoot /\ root.current_depth = 0 /\ root.depth >= 0
            => \A i \in CrawlFrames :
                  /\ 0 <= stack[i].current_depth
                  /\ stack[i].current_depth <= stack[i].depth
                  /\ stack[i].depth = root.depth
                  /\ stack[i].current_depth = Cardinality({j \in CrawlFrames : j < i}))
    /\ [][(root # NoRoot /\ root.current_depth = 0 /\ root.depth >= 0
             /\ stack # <<>>)
            => /\ (/\ Running("crawl", "enter")
                   /\ NormalizedOf[Top.article] \notin visited_articles)
                     => /\ ~(Top.current_depth > Top.depth)
                        /\ stack' # Pop(stack)
               /\ (fetch_log' # fetch_log \/ visited_articles' # visited_articles)
                     => /\ Top.fn = "crawl"
                        /\ Top.current_depth <= Top.depth]_vars

\* C23 witness: in a crawl started at depth 0 a call at the maximum depth,
\* one below the root, has marked its identifier and is fetching it.
C23_Witness ==
    /\ root # NoRoot /\ root.current_depth = 0 /\ root.depth >= 1
    /\ Len(stack) = 3
    /\ Top.fn = "fetch_article"
    /\ stack[2].fn = "crawl"
    /\ stack[2].current_depth = stack[2].depth
    /\ NormalizedOf[stack[2].article] \in visited_articles
    /\ stack[2].article \in Range(fetch_log)

\* An anchor whose href starts with /wiki/ and has no colon.
IsArticleLink(e) ==
    /\ e.tag = "a" /\ e.has_href
    /\ Len(e.href) >= 6
    /\ <<e.href[1], e.href[2], e.href[3], e.href[4], e.href[5], e.href[6]>>
          = <<"/", "w", "i", "k", "i", "/">>
    /\ \A i \in 1..Len(e.href) : e.href[i] # ":"

\* C22: for a document with a div of id bodyContent, _extract_links returns
\* one identifier for each anchor inside the (first such) div whose href
\* starts with /wiki/ and has no colon, in document order, the identifier
\* being the href without /wiki/; no identifier returned has a colon or is an
\* external address; for a document with no such div it returns the empty
\* sequence.
C22_ExtractLinksExact ==
    extracted # NoLinks =>
        LET all == Descendants(document)
            containers == {i \in 1..Len(all) :
                              all[i].tag = "div" /\ all[i].id = "bodyContent"}
            links == extracted.links
        IN  /\ containers = {} => links = <<>>
            /\ containers # {} =>
                   LET first == CHOOSE i \in containers :
                                    \A j \in containers : i <= j
                       wanted == SelectSeq(Descendants(all[first].children),
                                           IsArticleLink)
                   IN  /\ Len(links) = Len(wanted)
                       /\ \A k \in 1..Len(wanted) :
                              <<"/", "w", "i", "k", "i", "/">> \o links[k]
                                  = wanted[k].href
            /\ \A k \in 1..Len(links) :
                   /\ \A i \in 1..Len(links[k]) : links[k][i] # ":"
                   /\ ~(Len(links[k]) >= 4
                          /\ SubSeq(links[k], 1, 4) = <<"h", "t", "t", "p">>)

\* C22 witness: from a document with article links outside the container and,
\* inside it, a namespaced link before a link in a nested element, only the
\* nested one was returned.
C22_Witness ==
    /\ extracted # NoLinks
    /\ Len(document) = 3
    /\ document[2].children[1].children
          = <<Anchor(Href(<<"C", "a", "t", ":", "X">>), <<"x">>),
              Div("", <<Anchor(Href(<<"d">>), <<"x">>)>>)>>
    /\ extracted.links = << <<"d">> >>

====
